---- MODULE Spec2Model ----
(***************************************************************************)
(* Anchor channel reserves (lightning/src/util/anchor_channel_reserves.rs). *)
(*                                                                         *)
(* The module models get_reserve_per_channel,                              *)
(* get_supportable_anchor_channels (statement by statement) and            *)
(* can_support_additional_anchor_channel (with the chain monitor changing  *)
(* under the enumeration).                                                 *)
(*                                                                         *)
(* Amounts, weights and fee rates are u64 in the source.  TLC's integers   *)
(* are 32 bits wide, so the unsigned width is AmountBits here and every    *)
(* checked operation overflows at U64_MAX = 2^AmountBits - 1.              *)
(***************************************************************************)
EXTENDS Integers, Sequences, FiniteSets, TLC

VARIABLES
    context,                  \* the AnchorChannelReserveContext of the call
    utxos,                    \* the &[Utxo] of the call
    pc,                       \* position of the running call
    reserve_per_channel,      \* local of get_supportable_anchor_channels
    total_fractional_amount,  \* local of get_supportable_anchor_channels
    num_whole_utxos,          \* local of get_supportable_anchor_channels
    idx,                      \* position of `for utxo in utxos`
    outcome,                  \* "none", "value" (returned) or "panic"
    result,                   \* the u64 returned by get_supportable_anchor_channels
    chain_monitor,            \* outpoint -> monitor, the monitors now held
    channels,                 \* list_channels(): the channel_type of each channel
    listed,                   \* the Vec returned by list_monitors()
    pos,                      \* position of `for (outpoint, channel_id) in ...`
    anchor_channels_with_balance, \* local hash set of channel ids
    retrieved,                \* outpoints whose get_monitor returned Ok
    answer                    \* the bool returned by can_support_additional_anchor_channel

vars == <<context, utxos, pc, reserve_per_channel, total_fractional_amount,
          num_whole_utxos, idx, outcome, result, chain_monitor, channels,
          listed, pos, anchor_channels_with_balance, retrieved, answer>>

reserveVars == <<reserve_per_channel, total_fractional_amount, num_whole_utxos, idx>>
censusVars == <<chain_monitor, channels, listed, pos, anchor_channels_with_balance,
                retrieved, answer>>

----
\* Bounds of the model.
AmountBits == 29
MaxUtxos == 4
MaxMonitors == 3
MaxChannels == 1

\* The largest unsigned value of the modelled width (u64::MAX in the source).
U64_MAX == (2 ^ (AmountBits - 1) - 1) * 2 + 1
U16_MAX == 65535

----
\* Option<T>: None is <<>>, Some(v) is <<v>>.
None == <<>>
Some(v) == <<v>>
unwrap_or(o, default) == IF o = None THEN default ELSE o[1]

checked_mul(a, b) == IF b # 0 /\ a > U64_MAX \div b THEN None ELSE Some(a * b)
checked_add(a, b) == IF a > U64_MAX - b THEN None ELSE Some(a + b)
checked_sub(a, b) == IF b > a THEN None ELSE Some(a - b)

Amount_MAX == U64_MAX
Amount_MIN == 0

\* FeeRate::fee_wu: the rate is in sat per 1000 weight units; the fee is rounded up.
fee_wu(rate, weight) ==
    LET product == checked_mul(rate, weight)
    IN  IF product = None THEN None
        ELSE LET padded == checked_add(product[1], 999)
             IN  IF padded = None THEN None ELSE Some(padded[1] \div 1000)

----
\* Transaction weights.
WITNESS_SCALE_FACTOR == 4
COMMITMENT_TRANSACTION_BASE_WEIGHT == 900 + 224
COMMITMENT_TRANSACTION_PER_HTLC_WEIGHT == 172
PER_HTLC_TIMEOUT_WEIGHT == 666
PER_HTLC_SUCCESS_WEIGHT == 706
TRANSACTION_BASE_WEIGHT == (4 + 4 + 1 + 1) * WITNESS_SCALE_FACTOR + 2
P2WPKH_INPUT_WEIGHT_LongSignature ==
    (36 + 4 + 1) * WITNESS_SCALE_FACTOR + (1 + 1 + 73 + 1 + 33)
P2WPKH_INPUT_WEIGHT == (36 + 4 + 1) * WITNESS_SCALE_FACTOR + (1 + 1 + 72 + 1 + 33)
P2WPKH_OUTPUT_WEIGHT == (8 + 1 + 22) * WITNESS_SCALE_FACTOR
P2TR_INPUT_WEIGHT == (36 + 4 + 1) * WITNESS_SCALE_FACTOR + (1 + 1 + 64)
P2TR_OUTPUT_WEIGHT_P2wpkhScript == (8 + 1 + 22) * WITNESS_SCALE_FACTOR
P2TR_OUTPUT_WEIGHT == (8 + 1 + 34) * WITNESS_SCALE_FACTOR
ANCHOR_INPUT_WEIGHT == (36 + 4 + 1) * WITNESS_SCALE_FACTOR + (1 + 1 + 72 + 1 + 40)

htlc_success_transaction_weight(ctx) ==
    PER_HTLC_SUCCESS_WEIGHT
        + IF ctx.taproot_wallet
            THEN P2TR_INPUT_WEIGHT + P2TR_OUTPUT_WEIGHT
            ELSE P2WPKH_INPUT_WEIGHT + P2WPKH_OUTPUT_WEIGHT

htlc_timeout_transaction_weight(ctx) ==
    PER_HTLC_TIMEOUT_WEIGHT
        + IF ctx.taproot_wallet
            THEN P2TR_INPUT_WEIGHT + P2TR_OUTPUT_WEIGHT
            ELSE P2WPKH_INPUT_WEIGHT + P2WPKH_OUTPUT_WEIGHT

anchor_output_spend_transaction_weight(ctx) ==
    TRANSACTION_BASE_WEIGHT
        + ANCHOR_INPUT_WEIGHT
        + IF ctx.taproot_wallet
            THEN P2TR_INPUT_WEIGHT + P2TR_OUTPUT_WEIGHT
            ELSE P2WPKH_INPUT_WEIGHT + P2WPKH_OUTPUT_WEIGHT

\* The argument of Weight::from_wu in get_reserve_per_channel.  With
\* expected_accepted_htlcs a u16 the sum stays below 2^28: it cannot overflow.
reserve_weight_SingleHtlcLeg(ctx) ==
    COMMITMENT_TRANSACTION_BASE_WEIGHT
        + ctx.expected_accepted_htlcs * COMMITMENT_TRANSACTION_PER_HTLC_WEIGHT
        + anchor_output_spend_transaction_weight(ctx)
        + htlc_success_transaction_weight(ctx) * ctx.expected_accepted_htlcs
        + htlc_timeout_transaction_weight(ctx) * ctx.expected_accepted_htlcs

reserve_weight(ctx) ==
    COMMITMENT_TRANSACTION_BASE_WEIGHT
        + 2 * ctx.expected_accepted_htlcs * COMMITMENT_TRANSACTION_PER_HTLC_WEIGHT
        + anchor_output_spend_transaction_weight(ctx)
        + htlc_success_transaction_weight(ctx) * ctx.expected_accepted_htlcs
        + htlc_timeout_transaction_weight(ctx) * ctx.expected_accepted_htlcs

get_reserve_per_channel_ClampMin(ctx) ==
    unwrap_or(fee_wu(ctx.upper_bound_fee_rate, reserve_weight(ctx)), Amount_MIN)

get_reserve_per_channel(ctx) ==
    unwrap_or(fee_wu(ctx.upper_bound_fee_rate, reserve_weight(ctx)), Amount_MAX)

----
\* get_supportable_anchor_channels.

is_whole(utxo, reserve) == utxo.value >= reserve

add_fractional_ClampMax(ctx, total, utxo) ==
    LET added == unwrap_or(checked_add(total, utxo.value), Amount_MAX)
        satisfaction_fee ==
            unwrap_or(fee_wu(ctx.upper_bound_fee_rate, utxo.satisfaction_weight),
                      Amount_MAX)
    IN  unwrap_or(checked_sub(added, satisfaction_fee), Amount_MAX)

\* The else branch of the loop body: the new total_fractional_amount.
add_fractional(ctx, total, utxo) ==
    LET added == unwrap_or(checked_add(total, utxo.value), Amount_MAX)
        satisfaction_fee ==
            unwrap_or(fee_wu(ctx.upper_bound_fee_rate, utxo.satisfaction_weight),
                      Amount_MAX)
    IN  unwrap_or(checked_sub(added, satisfaction_fee), Amount_MIN)

\* The final expression; it is evaluated only with reserve # 0.
supportable_count_NoHalving(whole, total, reserve) ==
    whole + total \div reserve

supportable_count(whole, total, reserve) ==
    whole + (total \div reserve) \div 2

RECURSIVE fold_utxos(_, _, _, _)
\* The locals <<num_whole_utxos, total_fractional_amount>> after the loop has
\* run over list[i..Len(list)] from the locals acc.
fold_utxos(ctx, list, i, acc) ==
    IF i > Len(list) THEN acc
    ELSE fold_utxos(ctx, list, i + 1,
            IF is_whole(list[i], get_reserve_per_channel(ctx))
                THEN <<acc[1] + 1, acc[2]>>
                ELSE <<acc[1], add_fractional(ctx, acc[2], list[i])>>)

\* The whole call: [outcome, value].
get_supportable_anchor_channels(ctx, list) ==
    LET reserve == get_reserve_per_channel(ctx)
        locals == fold_utxos(ctx, list, 1, <<0, Amount_MIN>>)
    IN  IF reserve = 0
            THEN [outcome |-> "panic", value |-> 0]
            ELSE [outcome |-> "value",
                  value |-> supportable_count(locals[1], locals[2], reserve)]

----
\* Inputs.
\* Fee rates in sat per 1000 weight units: none, the least, the rate of the
\* tests, the default, one so high that the fee of a channel with 10 HTLCs
\* overflows while that of a channel with 1 HTLC does not, and the largest.
\* Only the last two overflow, as in the full width.
FeeRates == {0, 1, 1000, 50 * 250, U64_MAX \div 10000, U64_MAX}
HtlcCounts == {0, 1, 10}
Contexts ==
    [upper_bound_fee_rate : FeeRates, expected_accepted_htlcs : HtlcCounts,
     taproot_wallet : BOOLEAN]
    \cup [upper_bound_fee_rate : {0, 1}, expected_accepted_htlcs : {U16_MAX},
          taproot_wallet : BOOLEAN]

\* The satisfaction weight of a P2WPKH input.
P2WPKH_SATISFACTION_WEIGHT == 1 * 4 + (1 + 1 + 72 + 1 + 33)

Utxo(v, w) == [value |-> v, satisfaction_weight |-> w]

\* UTXOs around the reserve: exactly the reserve, just below it without and
\* with a fee to spend it, half of it, and dust that costs more than any
\* amount to spend.
UtxoChoices(reserve) ==
    { Utxo(reserve, P2WPKH_SATISFACTION_WEIGHT),
      Utxo(IF reserve > 0 THEN reserve - 1 ELSE 0, 0),
      Utxo(reserve \div 2, P2WPKH_SATISFACTION_WEIGHT),
      Utxo(1, U64_MAX) }

SeqsUpTo(S, n) == UNION {[1..k -> S] : k \in 0..n}

----
\* get_supportable_anchor_channels called on its own.
Init ==
    /\ context \in Contexts
    /\ utxos \in SeqsUpTo(UtxoChoices(get_reserve_per_channel(context)), MaxUtxos)
    /\ pc = "entry"
    /\ reserve_per_channel = 0
    /\ total_fractional_amount = 0
    /\ num_whole_utxos = 0
    /\ idx = 1
    /\ outcome = "none"
    /\ result = 0
    /\ chain_monitor = <<>>
    /\ channels = <<>>
    /\ listed = <<>>
    /\ pos = 1
    /\ anchor_channels_with_balance = {}
    /\ retrieved = {}
    /\ answer = FALSE

ComputeReserve ==
    /\ pc = "entry"
    /\ reserve_per_channel' = get_reserve_per_channel(context)
    /\ total_fractional_amount' = 0
    /\ num_whole_utxos' = 0
    /\ idx' = 1
    /\ pc' = "loop"
    /\ UNCHANGED <<context, utxos, outcome, result, censusVars>>

LoopWhole ==
    /\ pc = "loop"
    /\ idx <= Len(utxos)
    /\ is_whole(utxos[idx], reserve_per_channel)
    /\ num_whole_utxos' = num_whole_utxos + 1
    /\ idx' = idx + 1
    /\ UNCHANGED <<context, utxos, pc, reserve_per_channel, total_fractional_amount,
                   outcome, result, censusVars>>

LoopFractional ==
    /\ pc = "loop"
    /\ idx <= Len(utxos)
    /\ ~is_whole(utxos[idx], reserve_per_channel)
    /\ total_fractional_amount' =
           add_fractional(context, total_fractional_amount, utxos[idx])
    /\ idx' = idx + 1
    /\ UNCHANGED <<context, utxos, pc, reserve_per_channel, num_whole_utxos,
                   outcome, result, censusVars>>

\* The division by zero panics.
Return ==
    /\ pc = "loop"
    /\ idx > Len(utxos)
    /\ IF reserve_per_channel = 0
          THEN outcome' = "panic" /\ result' = result
          ELSE /\ outcome' = "value"
               /\ result' = supportable_count(num_whole_utxos,
                                total_fractional_amount, reserve_per_channel)
    /\ pc' = "done"
    /\ UNCHANGED <<context, utxos, reserveVars, censusVars>>

Next == ComputeReserve \/ LoopWhole \/ LoopFractional \/ Return

Spec == Init /\ [][Next]_vars

----
\* can_support_additional_anchor_channel.  The chain monitor and the channel
\* manager are collaborators: list_monitors() returns the outpoints and channel
\* ids of the monitors held at that moment (in either direction of the map),
\* get_monitor(outpoint) fails for an outpoint no longer held, and monitors are
\* removed (archived) by other threads while the call runs.

Monitor(id, anchors, balances) ==
    [channel_id |-> id, supports_anchors_zero_fee_htlc_tx |-> anchors,
     claimable_balances |-> balances]

\* An anchor monitor with a balance, one without, and a non-anchor monitor
\* with a balance.
MonitorShapes == {<<TRUE, 1>>, <<TRUE, 0>>, <<FALSE, 1>>}

\* Monitors 1 and 2 belong to channel 1, monitors 3 and 4 to channel 2, ...
ChainMonitors ==
    { [o \in 1..MaxMonitors |-> Monitor((o + 1) \div 2, shape[o][1], shape[o][2])] :
        shape \in [1..MaxMonitors -> MonitorShapes] }

ChannelTypes == {None, Some("anchors_zero_fee_htlc_tx")}

AdmissionContexts ==
    { ctx \in Contexts :
        /\ ctx.upper_bound_fee_rate \in {0, 1000}
        /\ ctx.expected_accepted_htlcs = 1
        /\ ~ctx.taproot_wallet }

AdmissionUtxos(reserve) ==
    { [i \in 1..k |-> Utxo(reserve, P2WPKH_SATISFACTION_WEIGHT)] : k \in 0..MaxUtxos }
        \cup { <<Utxo(IF reserve > 0 THEN reserve - 1 ELSE 0, 0)>> }

RECURSIVE SortedSeq(_)
\* The elements of a set of numbers, ascending.
SortedSeq(S) ==
    IF S = {} THEN <<>>
    ELSE LET m == CHOOSE x \in S : \A y \in S : x <= y
         IN  <<m>> \o SortedSeq(S \ {m})

Reverse(s) == [i \in DOMAIN s |-> s[Len(s) + 1 - i]]

counts_toward_census(monitor) ==
    /\ monitor.supports_anchors_zero_fee_htlc_tx
    /\ monitor.claimable_balances # 0

negotiating_channels(list) == Cardinality({i \in DOMAIN list : list[i] = None})

has_room_NotStrict(supportable, num_anchor_channels) ==
    supportable >= num_anchor_channels

has_room(supportable, num_anchor_channels) == supportable > num_anchor_channels

InitAdmission ==
    /\ context \in AdmissionContexts
    /\ utxos \in AdmissionUtxos(get_reserve_per_channel(context))
    /\ chain_monitor \in ChainMonitors
    /\ channels \in SeqsUpTo(ChannelTypes, MaxChannels)
    /\ pc = "list_monitors"
    /\ reserve_per_channel = 0
    /\ total_fractional_amount = 0
    /\ num_whole_utxos = 0
    /\ idx = 1
    /\ outcome = "none"
    /\ result = 0
    /\ listed = <<>>
    /\ pos = 1
    /\ anchor_channels_with_balance = {}
    /\ retrieved = {}
    /\ answer = FALSE

\* Another thread removes a monitor.  After the enumeration the call reads the
\* chain monitor no more, so removals are followed only until then.
RemoveMonitor ==
    /\ pc \in {"list_monitors", "get_monitor"}
    /\ \E o \in DOMAIN chain_monitor :
          chain_monitor' = [x \in DOMAIN chain_monitor \ {o} |-> chain_monitor[x]]
    /\ UNCHANGED <<context, utxos, pc, reserveVars, outcome, result, channels,
                   listed, pos, anchor_channels_with_balance, retrieved, answer>>

ListMonitors ==
    /\ pc = "list_monitors"
    /\ \E order \in {SortedSeq(DOMAIN chain_monitor),
                    Reverse(SortedSeq(DOMAIN chain_monitor))} :
          listed' = [i \in DOMAIN order |->
                        [outpoint |-> order[i],
                         channel_id |-> chain_monitor[order[i]].channel_id]]
    /\ pos' = 1
    /\ pc' = "get_monitor"
    /\ UNCHANGED <<context, utxos, reserveVars, outcome, result, chain_monitor,
                   channels, anchor_channels_with_balance, retrieved, answer>>

GetMonitorFound ==
    /\ pc = "get_monitor"
    /\ pos <= Len(listed)
    /\ listed[pos].outpoint \in DOMAIN chain_monitor
    /\ LET channel_monitor == chain_monitor[listed[pos].outpoint]
       IN  /\ anchor_channels_with_balance' =
                  IF counts_toward_census(channel_monitor)
                      THEN anchor_channels_with_balance \cup {listed[pos].channel_id}
                      ELSE anchor_channels_with_balance
           /\ retrieved' = retrieved \cup
                  {[outpoint |-> listed[pos].outpoint,
                    channel_id |-> listed[pos].channel_id,
                    monitor |-> channel_monitor]}
    /\ pos' = pos + 1
    /\ UNCHANGED <<context, utxos, pc, reserveVars, outcome, result, chain_monitor,
                   channels, listed, answer>>

GetMonitorMissing ==
    /\ pc = "get_monitor"
    /\ pos <= Len(listed)
    /\ listed[pos].outpoint \notin DOMAIN chain_monitor
    /\ pos' = pos + 1
    /\ UNCHANGED <<context, utxos, pc, reserveVars, outcome, result, chain_monitor,
                   channels, listed, anchor_channels_with_balance, retrieved, answer>>

CountAndCompare ==
    /\ pc = "get_monitor"
    /\ pos > Len(listed)
    /\ LET num_anchor_channels ==
               Cardinality(anchor_channels_with_balance) + negotiating_channels(channels)
           supportable == get_supportable_anchor_channels(context, utxos)
       IN  /\ outcome' = supportable.outcome
           /\ result' = supportable.value
           /\ answer' = IF supportable.outcome = "value"
                           THEN has_room(supportable.value, num_anchor_channels)
                           ELSE answer
    /\ pc' = "done"
    /\ UNCHANGED <<context, utxos, reserveVars, chain_monitor, channels, listed, pos,
                   anchor_channels_with_balance, retrieved>>

NextAdmission ==
    \/ RemoveMonitor
    \/ ListMonitors
    \/ GetMonitorFound
    \/ GetMonitorMissing
    \/ CountAndCompare

SpecAdmission == InitAdmission /\ [][NextAdmission]_vars

----
\* Helpers of the properties.

Max(S) == CHOOSE x \in S : \A y \in S : y <= x

\* The fee to spend a UTXO at the context's fee rate.
SatisfactionFee(ctx, utxo) ==
    unwrap_or(fee_wu(ctx.upper_bound_fee_rate, utxo.satisfaction_weight), Amount_MAX)

RECURSIVE ValueSum(_, _)
\* The total output value of the UTXOs at the positions S, capped at U64_MAX.
ValueSum(list, S) ==
    IF S = {} THEN 0
    ELSE LET i == CHOOSE x \in S : TRUE
             rest == ValueSum(list, S \ {i})
         IN  IF rest > U64_MAX - list[i].value THEN U64_MAX ELSE rest + list[i].value

RECURSIVE MaxDisjointReserves(_, _, _)
\* The largest number of pairwise disjoint subsets of the positions S whose
\* total output value is at least reserve each.
MaxDisjointReserves(list, S, reserve) ==
    IF S = {} THEN 0
    ELSE LET m == CHOOSE x \in S : \A y \in S : x <= y
             rest == S \ {m}
         IN  Max({MaxDisjointReserves(list, rest, reserve)} \cup
                 { 1 + MaxDisjointReserves(list, rest \ T, reserve) :
                     T \in {T \in SUBSET rest :
                               ValueSum(list, T \cup {m}) >= reserve} })

WholePositions(list, reserve) == {i \in DOMAIN list : list[i].value >= reserve}
FractionalPositions(list, reserve) == {i \in DOMAIN list : list[i].value < reserve}

\* max(0, value - satisfaction fee) of one UTXO.
ClampedContribution(ctx, utxo) ==
    IF SatisfactionFee(ctx, utxo) >= utxo.value THEN 0
    ELSE utxo.value - SatisfactionFee(ctx, utxo)

RECURSIVE ClampedSum(_, _, _)
\* The sum over the positions S of the per-UTXO clamped contributions, capped
\* at U64_MAX.
ClampedSum(ctx, list, S) ==
    IF S = {} THEN 0
    ELSE LET i == CHOOSE x \in S : TRUE
             rest == ClampedSum(ctx, list, S \ {i})
             c == ClampedContribution(ctx, list[i])
         IN  IF rest > U64_MAX - c THEN U64_MAX ELSE rest + c

Swap(list, i, j) ==
    [k \in DOMAIN list |-> IF k = i THEN list[j] ELSE IF k = j THEN list[i] ELSE list[k]]

Returned == pc = "done" /\ outcome = "value"

----
\* C1: with a reserve per channel of 0 the call returns, without a division by
\* zero, the number of UTXOs in the list.
C1_ZeroReserveCountsEveryUtxo ==
    (pc = "done" /\ reserve_per_channel = 0) =>
        (outcome = "value" /\ result = Len(utxos))

\* C2: with a reserve r > 0 the returned count never exceeds the largest number
\* of pairwise disjoint subsets of the UTXO list whose total value is at least r.
C2_NeverOverestimates ==
    (Returned /\ reserve_per_channel > 0) =>
        result <= MaxDisjointReserves(utxos, DOMAIN utxos, reserve_per_channel)

\* C2 witness: a returned count in which the fractional UTXOs fund a channel
\* beside a whole UTXO.
C2_Witness ==
    /\ Returned
    /\ reserve_per_channel > 0
    /\ num_whole_utxos >= 1
    /\ result > num_whole_utxos

\* C3: the call returns the same value for every permutation of the UTXO list
\* (every permutation is a product of exchanges of two positions).
C3_OrderIndependent ==
    pc = "done" =>
        \A i, j \in DOMAIN utxos :
            get_supportable_anchor_channels(context, Swap(utxos, i, j))
                = [outcome |-> outcome, value |-> result]

\* C4: with a reserve r > 0 the call returns num_whole + floor(floor(F / r) / 2),
\* F the sum over the UTXOs below r of max(0, value - satisfaction fee).
C4_PerUtxoClampedTotal ==
    (pc = "done" /\ reserve_per_channel > 0) =>
        /\ outcome = "value"
        /\ result =
              Cardinality(WholePositions(utxos, reserve_per_channel))
              + (ClampedSum(context, utxos,
                            FractionalPositions(utxos, reserve_per_channel))
                   \div reserve_per_channel) \div 2

\* C7: for a fixed wallet type the reserve does not decrease when the fee rate
\* grows with the HTLC count fixed, nor when the HTLC count grows with the fee
\* rate fixed, overflowing inputs included.
C7_ReserveMonotonic ==
    pc # "entry" =>
        \A lower \in Contexts :
            ( /\ lower.taproot_wallet = context.taproot_wallet
              /\ \/ /\ lower.expected_accepted_htlcs = context.expected_accepted_htlcs
                    /\ lower.upper_bound_fee_rate <= context.upper_bound_fee_rate
                 \/ /\ lower.upper_bound_fee_rate = context.upper_bound_fee_rate
                    /\ lower.expected_accepted_htlcs <= context.expected_accepted_htlcs )
            => get_reserve_per_channel(lower) <= reserve_per_channel

\* C7 witness: a reserve clamped to the maximum amount, above the positive,
\* unclamped reserve of a lower fee rate and of a lower HTLC count.
C7_Witness ==
    /\ pc # "entry"
    /\ reserve_per_channel = Amount_MAX
    /\ \E lower \in Contexts :
          /\ lower.taproot_wallet = context.taproot_wallet
          /\ lower.expected_accepted_htlcs = context.expected_accepted_htlcs
          /\ lower.upper_bound_fee_rate < context.upper_bound_fee_rate
          /\ get_reserve_per_channel(lower) \in 1..(Amount_MAX - 1)
    /\ \E lower \in Contexts :
          /\ lower.taproot_wallet = context.taproot_wallet
          /\ lower.upper_bound_fee_rate = context.upper_bound_fee_rate
          /\ lower.expected_accepted_htlcs < context.expected_accepted_htlcs
          /\ get_reserve_per_channel(lower) \in 1..(Amount_MAX - 1)

\* C8 as stated: the reserve of a Taproot wallet is never strictly larger than
\* the reserve of a Segwit wallet with the same fee rate and HTLC count.
C8_TaprootNeverLarger ==
    (pc # "entry" /\ context.taproot_wallet) =>
        reserve_per_channel
            <= get_reserve_per_channel([context EXCEPT !.taproot_wallet = FALSE])

\* C8 amended: the reserve of a Taproot wallet is never strictly smaller than
\* the reserve of a Segwit wallet with the same fee rate and HTLC count.
C8_TaprootNeverSmaller ==
    (pc # "entry" /\ context.taproot_wallet) =>
        reserve_per_channel
            >= get_reserve_per_channel([context EXCEPT !.taproot_wallet = FALSE])

\* C8 witness: a Taproot reserve strictly above the Segwit one, neither clamped.
C8_Witness ==
    /\ pc # "entry"
    /\ context.taproot_wallet
    /\ reserve_per_channel < Amount_MAX
    /\ reserve_per_channel
           > get_reserve_per_channel([context EXCEPT !.taproot_wallet = FALSE])

\* The total weight of C9, from the weights the specification states.
StatedTotalWeight(ctx) ==
    LET h == ctx.expected_accepted_htlcs
    IN  IF ctx.taproot_wallet
            THEN 1124 + 2 * h * 172 + 723 + h * 1108 + h * 1068
            ELSE 1124 + 2 * h * 172 + 717 + h * 1102 + h * 1062

\* C9: the reserve is the fee of the total weight at the fee rate, in whole
\* satoshis (rounded up once), or the maximum amount when that overflows; at
\* 1000 sat per 1000 weight units it is the total weight, 4349 for one HTLC and
\* a Segwit wallet.
C9_ReserveIsFeeOfTotalWeight ==
    pc # "entry" =>
        LET rate == context.upper_bound_fee_rate
            weight == StatedTotalWeight(context)
        IN  /\ reserve_per_channel =
                  IF rate > (U64_MAX - 999) \div weight THEN Amount_MAX
                  ELSE (rate * weight) \div 1000
                         + (IF (rate * weight) % 1000 = 0 THEN 0 ELSE 1)
            /\ rate = 1000 => reserve_per_channel = weight
            /\ ( /\ rate = 1000
                 /\ context.expected_accepted_htlcs = 1
                 /\ ~context.taproot_wallet ) => reserve_per_channel = 4349

\* C9 witness: the reserve of 4349 satoshis.
C9_Witness ==
    /\ pc # "entry"
    /\ context.upper_bound_fee_rate = 1000
    /\ context.expected_accepted_htlcs = 1
    /\ ~context.taproot_wallet
    /\ reserve_per_channel = 4349

\* C10: an empty UTXO list yields 0 whatever the reserve; with a reserve r > 0
\* a single UTXO of value r yields 1 and a single UTXO of value r - 1 yields 0.
C10_EmptyAndBoundary ==
    pc = "done" =>
        /\ utxos = <<>> => (outcome = "value" /\ result = 0)
        /\ (reserve_per_channel > 0 /\ Len(utxos) = 1) =>
              /\ utxos[1].value = reserve_per_channel =>
                    (outcome = "value" /\ result = 1 /\ total_fractional_amount = 0)
              /\ utxos[1].value = reserve_per_channel - 1 =>
                    (outcome = "value" /\ result = 0)

----
\* The census of can_support_additional_anchor_channel: the distinct channel
\* ids of the monitors that were retrieved, support zero-fee anchor HTLC
\* transactions and have a claimable balance, plus the channels without a
\* channel type.
CensusCount ==
    Cardinality({ r.channel_id : r \in
                    { r \in retrieved :
                        /\ r.monitor.supports_anchors_zero_fee_htlc_tx
                        /\ r.monitor.claimable_balances >= 1 } })
        + Cardinality({i \in DOMAIN channels : channels[i] = None})

ListedOutpoints == {listed[i].outpoint : i \in DOMAIN listed}
RetrievedOutpoints == {r.outpoint : r \in retrieved}

\* C5: the call returns true exactly when the supportable count is strictly
\* greater than the census count.
C5_TrueIffSupportableExceedsCensus ==
    pc = "done" =>
        LET supportable == get_supportable_anchor_channels(context, utxos)
        IN  /\ (outcome = "value" /\ answer)
                  <=> (supportable.outcome = "value" /\ supportable.value > CensusCount)
            /\ supportable.outcome = "value" =>
                  /\ outcome = "value"
                  /\ supportable.value = CensusCount => ~answer
                  /\ supportable.value = CensusCount + 1 => answer

\* C5 witness: true is returned with the census one below the supportable
\* count, two retrieved monitors of one channel counting once.
C5_Witness ==
    /\ pc = "done"
    /\ outcome = "value"
    /\ answer
    /\ result = CensusCount + 1
    /\ Cardinality(anchor_channels_with_balance) >= 1
    /\ \E a, b \in retrieved :
          /\ a.outpoint # b.outpoint
          /\ a.channel_id = b.channel_id
          /\ counts_toward_census(a.monitor)
          /\ counts_toward_census(b.monitor)
    /\ \E i \in DOMAIN channels : channels[i] = None

\* C6: when a listed monitor is gone at its lookup, the call does not fail:
\* the entry adds nothing to the census, every other listed monitor is
\* examined, and the call completes with a boolean.
C6_VanishedMonitorNeverFails ==
    (pc = "done" /\ RetrievedOutpoints # ListedOutpoints) =>
        /\ pos = Len(listed) + 1
        /\ anchor_channels_with_balance =
              {r.channel_id : r \in {r \in retrieved : counts_toward_census(r.monitor)}}
        /\ outcome = "value"
        /\ answer \in BOOLEAN

\* The enumeration alone: a monitor gone at its lookup is passed over, and the
\* set holds the channel ids of the counting monitors retrieved so far.
CensusSkipsVanishedMonitors ==
    pc \in {"get_monitor", "done"} =>
        /\ RetrievedOutpoints \subseteq {listed[i].outpoint : i \in 1..(pos - 1)}
        /\ anchor_channels_with_balance =
              {r.channel_id : r \in {r \in retrieved : counts_toward_census(r.monitor)}}
        /\ pc = "done" => pos = Len(listed) + 1

----
\* C11: the anchor-output spend weighs 717 wu with a Segwit wallet and 723 wu
\* with a Taproot wallet, the HTLC-success transaction 1102 and 1108 wu, the
\* HTLC-timeout transaction 1062 and 1068 wu; each is its fixed part (321, 706
\* and 666 wu) plus one wallet input and one wallet output of the wallet's
\* type (272 + 124 wu for P2WPKH, 230 + 172 wu for P2TR), whatever the fee
\* rate and the HTLC count.
C11_WeightsMatchProtocolLiterals ==
    pc # "entry" =>
        \A ctx \in Contexts :
            ctx.taproot_wallet = context.taproot_wallet =>
                LET wallet == IF context.taproot_wallet THEN 230 + 172 ELSE 272 + 124
                IN  /\ anchor_output_spend_transaction_weight(ctx)
                          = (IF context.taproot_wallet THEN 723 ELSE 717)
                    /\ htlc_success_transaction_weight(ctx)
                          = (IF context.taproot_wallet THEN 1108 ELSE 1102)
                    /\ htlc_timeout_transaction_weight(ctx)
                          = (IF context.taproot_wallet THEN 1068 ELSE 1062)
                    /\ anchor_output_spend_transaction_weight(ctx) = 321 + wallet
                    /\ htlc_success_transaction_weight(ctx) = 706 + wallet
                    /\ htlc_timeout_transaction_weight(ctx) = 666 + wallet

\* C11 witness: a reserve computed for a Taproot wallet with 10 HTLCs at a fee
\* rate other than the default, from the weights 723, 1108 and 1068.
C11_Witness ==
    /\ pc # "entry"
    /\ context.taproot_wallet
    /\ context.expected_accepted_htlcs = 10
    /\ context.upper_bound_fee_rate = 1000
    /\ anchor_output_spend_transaction_weight(context) = 723
    /\ htlc_success_transaction_weight(context) = 1108
    /\ htlc_timeout_transaction_weight(context) = 1068
    /\ reserve_per_channel = 1124 + 2 * 10 * 172 + 723 + 10 * 1108 + 10 * 1068

\* C12: with a reserve r > 0 the running fractional total never exceeds the
\* sum of max(0, value - satisfaction fee) over the fractional UTXOs passed so
\* far, in every order, so the returned count never exceeds
\* num_whole + floor(floor(that sum over all fractional UTXOs / r) / 2).
C12_RunningTotalBelowClampedSum ==
    (pc \in {"loop", "done"} /\ reserve_per_channel > 0) =>
        /\ total_fractional_amount
              <= ClampedSum(context, utxos,
                    {i \in FractionalPositions(utxos, reserve_per_channel) : i < idx})
        /\ Returned =>
              result <= Cardinality(WholePositions(utxos, reserve_per_channel))
                        + (ClampedSum(context, utxos,
                              FractionalPositions(utxos, reserve_per_channel))
                             \div reserve_per_channel) \div 2

\* C12 witness: a returned count strictly below that bound, the running total
\* having been clamped to zero after UTXOs had contributed to it.
C12_Witness ==
    /\ Returned
    /\ reserve_per_channel > 0
    /\ total_fractional_amount > 0
    /\ total_fractional_amount
          < ClampedSum(context, utxos, FractionalPositions(utxos, reserve_per_channel))
    /\ result < Cardinality(WholePositions(utxos, reserve_per_channel))
                + (ClampedSum(context, utxos,
                      FractionalPositions(utxos, reserve_per_channel))
                     \div reserve_per_channel) \div 2

====
